---- MODULE Spec2Model ----
(***************************************************************************)
(* Technician assistant: the checkpointed procedure executor (StepManager, *)
(* scripts/assistant.py) with its startup selection, its input channel     *)
(* (UserInputHandler, scripts/utils.py), and the recorder and the choice   *)
(* parser (scripts/text_to_speech.py).                                     *)
(*                                                                         *)
(* Text is modelled as a sequence of one-character strings, so that        *)
(* strip(), lower(), substring search, the digit regular expression,       *)
(* int() and str() are computed character by character.                    *)
(***************************************************************************)
EXTENDS Integers, Sequences, FiniteSets, TLC

VARIABLES
    \* ---- choice parser harness (parse_choice) ----
    text,       \* the argument handed to parse_choice
    choice,     \* its return value: <<>> is None, <<n>> is the integer n
    parsed,     \* whether parse_choice has returned
    \* ---- input channel (UserInputHandler) ----
    mode,       \* self.mode: "text" or "voice"
    request,    \* the arguments of the get_input call in progress (or the last one)
    shown,      \* how often print(prompt) ran for that call, recursive retries included
    transcript, \* the transcript of the last voice capture; None after a typed line
    result,     \* the value get_input returned to its caller; None while it has not
    typed,      \* the line input("> ") gave the last invocation; None after a voice capture
    stream,     \* the recorder's microphone stream: "none" or "open"
    \* ---- the program around the channel ----
    pc,         \* where the program is blocked, see the actions
    error,      \* the exception that ended the program, "none" when there is none
    selected,   \* _choose_operation: the index into part_data it computed, or None
    \* ---- startup selection (select_startup_option) ----
    saves,      \* the list of save files as globbed, in the order of the listing
    output,     \* the lines select_startup_option has printed, in order
    \* ---- procedure executor (StepManager) and checkpoint store ----
    procedures, \* the procedure documents, by id (read only)
    store,      \* the files of SAVE_DIR: a set of [path, state]
    procedure_id,               \* self.procedure_id ("" while no executor exists)
    current_subprocedure_idx,   \* self.current_subprocedure_idx
    current_step_idx,           \* self.current_step_idx
    \* ---- what an observer of the executor has seen (history) ----
    start,      \* the constructor's arguments: [resumed, sub, step]
    verdict,    \* what _require_yes made of result: "none", "accepted", "rejected"
    entered,    \* the subprocedures this run has entered, in order
    first_steps,\* <<s, k>>: the first step this run rendered in subprocedure s was k
    accepted,   \* the confirmations this run has accepted: <<"prereq">>,
                \* <<"step", s, k>>, <<"sub", s>>, in order
    interrupted \* while a run resumes an interrupted run, and between the two:
                \* Some([procedure_id, prereq, last]) of the interrupted run: whether
                \* it accepted the prerequisite confirmation, and the last
                \* confirmation it accepted (None when it accepted none)

varsParse == <<text, choice, parsed>>

varsChannel == <<mode, request, shown, transcript, result, typed, stream>>

varsProgram == <<pc, error, selected>>

varsStartup == <<saves, output>>

varsExecutor == <<procedures, store, procedure_id, current_subprocedure_idx,
                  current_step_idx>>

varsHistory == <<start, verdict, entered, first_steps, accepted, interrupted>>

vars == <<text, choice, parsed, mode, request, shown, transcript, result,
          typed, stream, pc, error, selected, saves, output,
          procedures, store, procedure_id,
          current_subprocedure_idx, current_step_idx,
          start, verdict, entered, first_steps, accepted, interrupted>>

(***************************************************************************)
(* Characters and the str methods the code uses                            *)
(***************************************************************************)
DigitChars == <<"0", "1", "2", "3", "4", "5", "6", "7", "8", "9">>

UpperChars ==
    <<"A", "B", "C", "D", "E", "F", "G", "H", "I", "J", "K", "L", "M",
      "N", "O", "P", "Q", "R", "S", "T", "U", "V", "W", "X", "Y", "Z">>

LowerChars ==
    <<"a", "b", "c", "d", "e", "f", "g", "h", "i", "j", "k", "l", "m",
      "n", "o", "p", "q", "r", "s", "t", "u", "v", "w", "x", "y", "z">>

Range(seq) == {seq[i] : i \in DOMAIN seq}

IsDigit(c) == c \in Range(DigitChars)

\* \w of the regular expression: letters, digits and the underscore
IsWordChar(c) ==
    c \in Range(DigitChars) \cup Range(UpperChars) \cup Range(LowerChars) \cup {"_"}

IsSpace(c) == c \in {" ", "\t", "\n"}

None == <<>>

Some(v) == <<v>>

\* str.lower()
lower(s) ==
    [i \in DOMAIN s |->
        IF s[i] \in Range(UpperChars)
        THEN LowerChars[CHOOSE k \in DOMAIN UpperChars : UpperChars[k] = s[i]]
        ELSE s[i]]

\* str.strip(): leading and trailing whitespace removed
strip(s) ==
    LET keep == {i \in DOMAIN s : ~IsSpace(s[i])}
    IN  IF keep = {} THEN <<>>
        ELSE LET lo == CHOOSE i \in keep : \A j \in keep : i <= j
                 hi == CHOOSE i \in keep : \A j \in keep : j <= i
             IN  SubSeq(s, lo, hi)

\* the Python expression  word in s
Contains(s, word) ==
    \E i \in 1..(Len(s) - Len(word) + 1) : SubSeq(s, i, i + Len(word) - 1) = word

\* int() of a run of decimal digits
RECURSIVE DigitsValue(_)
DigitsValue(ds) ==
    IF ds = <<>> THEN 0
    ELSE 10 * DigitsValue(SubSeq(ds, 1, Len(ds) - 1))
         + ((CHOOSE k \in DOMAIN DigitChars : DigitChars[k] = ds[Len(ds)]) - 1)

\* str() of a non-negative integer
RECURSIVE NatToStr(_)
NatToStr(n) ==
    IF n < 10 THEN <<DigitChars[n + 1]>>
    ELSE Append(NatToStr(n \div 10), DigitChars[(n % 10) + 1])

(***************************************************************************)
(* Choice parser                                                          *)
(***************************************************************************)
get_number_words ==
    <<[word |-> <<"z", "e", "r", "o">>, value |-> 0],
      [word |-> <<"o", "n", "e">>, value |-> 1],
      [word |-> <<"t", "w", "o">>, value |-> 2],
      [word |-> <<"t", "h", "r", "e", "e">>, value |-> 3],
      [word |-> <<"f", "o", "u", "r">>, value |-> 4],
      [word |-> <<"f", "i", "v", "e">>, value |-> 5],
      [word |-> <<"s", "i", "x">>, value |-> 6],
      [word |-> <<"s", "e", "v", "e", "n">>, value |-> 7],
      [word |-> <<"e", "i", "g", "h", "t">>, value |-> 8],
      [word |-> <<"n", "i", "n", "e">>, value |-> 9],
      [word |-> <<"t", "e", "n">>, value |-> 10],
      [word |-> <<"e", "l", "e", "v", "e", "n">>, value |-> 11],
      [word |-> <<"t", "w", "e", "l", "v", "e">>, value |-> 12],
      [word |-> <<"t", "h", "i", "r", "t", "e", "e", "n">>, value |-> 13],
      [word |-> <<"f", "o", "u", "r", "t", "e", "e", "n">>, value |-> 14],
      [word |-> <<"f", "i", "f", "t", "e", "e", "n">>, value |-> 15],
      [word |-> <<"s", "i", "x", "t", "e", "e", "n">>, value |-> 16],
      [word |-> <<"s", "e", "v", "e", "n", "t", "e", "e", "n">>, value |-> 17],
      [word |-> <<"e", "i", "g", "h", "t", "e", "e", "n">>, value |-> 18],
      [word |-> <<"n", "i", "n", "e", "t", "e", "e", "n">>, value |-> 19],
      [word |-> <<"t", "w", "e", "n", "t", "y">>, value |-> 20]>>

\* the end of the run of digits that starts at position i of s
RECURSIVE DigitRunEnd(_, _)
DigitRunEnd(s, i) ==
    IF i < Len(s) /\ IsDigit(s[i + 1]) THEN DigitRunEnd(s, i + 1) ELSE i

\* re.search(r"\d+", s) without the word boundaries: the leftmost run of digits
digit_match_anywhere(s) ==
    LET starts == {i \in DOMAIN s : IsDigit(s[i])}
    IN  IF starts = {} THEN <<>>
        ELSE LET i == CHOOSE k \in starts : \A j \in starts : k <= j
             IN  SubSeq(s, i, DigitRunEnd(s, i))

\* re.search(r"\b(\d+)\b", s): group 1 of the leftmost match, <<>> when there
\* is none. \b before a digit holds at the start of s or after a non-word
\* character; \d+ is greedy and a shorter run never ends at a \b, so a match
\* is a whole run of digits with no word character on either side.
digit_match(s) ==
    LET starts == {i \in DOMAIN s :
                      /\ IsDigit(s[i])
                      /\ (i = 1 \/ ~IsWordChar(s[i - 1]))
                      /\ LET j == DigitRunEnd(s, i)
                         IN  j = Len(s) \/ ~IsWordChar(s[j + 1])}
    IN  IF starts = {} THEN <<>>
        ELSE LET i == CHOOSE k \in starts : \A j \in starts : k <= j
             IN  SubSeq(s, i, DigitRunEnd(s, i))

\* the loop over get_number_words().items(): the first entry, in the order of
\* the dictionary, whose word is a substring of s
number_word_scan(s) ==
    LET hits == {k \in DOMAIN get_number_words : Contains(s, get_number_words[k].word)}
    IN  IF hits = {} THEN None
        ELSE Some(get_number_words[CHOOSE k \in hits : \A j \in hits : k <= j].value)

parse_choice(t) ==
    IF t = <<>> THEN None
    ELSE LET low == lower(t)
             m == digit_match(low)
         IN  IF m # <<>> THEN Some(DigitsValue(m)) ELSE number_word_scan(low)

(***************************************************************************)
(* Input channel: UserInputHandler.get_input                               *)
(*                                                                         *)
(* get_input blocks on the user once per invocation: on input("> ") in     *)
(* text mode, on record_and_transcribe() in voice mode. text_mode and      *)
(* voice_mode give what one invocation does with what the user supplied:   *)
(* return a value to the caller, or call get_input again with the same     *)
(* arguments ("retry"), in the mode it leaves behind.                      *)
(***************************************************************************)
Sentinel == <<"4", "0", "4">>

Prompt(t, n) == [text |-> t, n |-> n]

Request(prompt, expect_choice, max_choice) ==
    [prompt |-> prompt, expect_choice |-> expect_choice, max_choice |-> max_choice]

NoRequest == Request(Prompt("", 0), FALSE, None)

Return(m, v) == [kind |-> "return", mode |-> m, value |-> v]

Retry(m) == [kind |-> "retry", mode |-> m, value |-> <<>>]

text_mode_returning_sentinel(req, line) == Return("text", strip(line))

\* utils.py 45-53
text_mode(req, line) ==
    LET user_input == strip(line)
    IN  IF user_input = Sentinel THEN Retry("voice") ELSE Return("text", user_input)

\* Recorder.stop gives None when the callback delivered no frame, and then
\* record_and_transcribe gives ""; otherwise the transcription, whose segments
\* are joined and stripped (it is empty when no speech is recognised)
record_and_transcribe(frames, speech) ==
    IF ~frames THEN <<>> ELSE strip(speech)

voice_mode_returns_empty(req, heard) ==
    IF heard = <<>> THEN Return("voice", heard)
    ELSE IF req.expect_choice
    THEN LET c == parse_choice(heard)
         IN  IF c = None THEN Retry("voice")
             ELSE IF req.max_choice # None /\ ~(1 <= c[1] /\ c[1] <= req.max_choice[1])
             THEN Retry("voice")
             ELSE Return("voice", NatToStr(c[1]))
    ELSE Return("voice", heard)

\* the retries of lines 68-75 falling back to text as line 62 does
voice_mode_leaving_voice_on_bad_choice(req, heard) ==
    IF heard = <<>> THEN Retry("text")
    ELSE IF req.expect_choice
    THEN LET c == parse_choice(heard)
         IN  IF c = None THEN Retry("text")
             ELSE IF req.max_choice # None /\ ~(1 <= c[1] /\ c[1] <= req.max_choice[1])
             THEN Retry("text")
             ELSE Return("voice", NatToStr(c[1]))
    ELSE Return("voice", heard)

\* utils.py 58-79
voice_mode(req, heard) ==
    IF heard = <<>> THEN Retry("text")
    ELSE IF req.expect_choice
    THEN LET c == parse_choice(heard)
         IN  IF c = None THEN Retry("voice")
             ELSE IF req.max_choice # None /\ ~(1 <= c[1] /\ c[1] <= req.max_choice[1])
             THEN Retry("voice")
             ELSE Return("voice", NatToStr(c[1]))
    ELSE Return("voice", heard)

\* the recursion of get_input is bounded only by the user; the model follows
\* it for MaxPrompts displays of the prompt
MaxPrompts == 2

ChannelUnused ==
    /\ mode = "text"
    /\ request = NoRequest
    /\ shown = 0
    /\ transcript = None
    /\ result = None
    /\ typed = None
    /\ stream = "none"

ProgramUnused ==
    /\ pc = "idle"
    /\ error = "none"
    /\ selected = None

StartupUnused ==
    /\ saves = <<>>
    /\ output = <<>>

\* the caller invokes get_input(prompt, expect_choice, max_choice)
Call(req) ==
    /\ request' = req
    /\ shown' = 1
    /\ transcript' = None
    /\ result' = None
    /\ typed' = None
    /\ UNCHANGED <<mode, stream>>

ExecutorUnused ==
    /\ procedures = <<>>
    /\ store = {}
    /\ procedure_id = ""
    /\ current_subprocedure_idx = 0
    /\ current_step_idx = 0
    /\ start = [resumed |-> FALSE, saved |-> FALSE, sub |-> 0, step |-> 0]
    /\ verdict = "none"
    /\ entered = <<>>
    /\ first_steps = {}
    /\ accepted = <<>>
    /\ interrupted = None

\* get_input calls itself with the same arguments
Recurse(o, heard) ==
    /\ o.kind = "retry"
    /\ shown < MaxPrompts
    /\ mode' = o.mode
    /\ shown' = shown + 1
    /\ transcript' = heard
    /\ UNCHANGED <<request, result>>

\* get_input returns o.value to its caller, which goes on to the call `next`
\* of get_input, the prompt shown `n` times (the unchanged request and count
\* when the caller makes no further call in this step)
Returns(o, heard, next, n) ==
    /\ o.kind = "return"
    /\ mode' = o.mode
    /\ transcript' = heard
    /\ result' = Some(o.value)
    /\ request' = next
    /\ shown' = n

(***************************************************************************)
(* Checkpoint store: the files of SAVE_DIR                                 *)
(***************************************************************************)
\* Path(SAVE_DIR) / f"{procedure_id}.json": one file name per procedure id
save_path(id) == [stem |-> id]

exists(files, path) == \E f \in files : f.path = path

\* open(path, "w") and json.dump: the file is created, or truncated and rewritten
write_file_appending(files, path, state) == files \cup {[path |-> path, state |-> state]}

\* open(path, "r+"): an existing file is rewritten, none is created
write_file_not_creating(files, path, state) ==
    IF \E f \in files : f.path = path
    THEN {f \in files : f.path # path} \cup {[path |-> path, state |-> state]}
    ELSE files

write_file(files, path, state) ==
    {f \in files : f.path # path} \cup {[path |-> path, state |-> state]}

unlink(files, path) == {f \in files : f.path # path}

save_state_of_next_step(files, id, title, sub, step) ==
    write_file(files, save_path(id),
               [procedure_id |-> id, procedure_title |-> title,
                subprocedure_idx |-> sub, step_idx |-> step + 1])

\* assistant.py 77-85
save_state(files, id, title, sub, step) ==
    write_file(files, save_path(id),
               [procedure_id |-> id, procedure_title |-> title,
                subprocedure_idx |-> sub, step_idx |-> step])

clear_save_skipped(files, id) == [store |-> files, error |-> "none"]

\* assistant.py 69-71: the save is removed when it exists; unlink is not
\* reached, and so cannot raise, when it does not
clear_save(files, id) ==
    IF exists(files, save_path(id))
    THEN [store |-> unlink(files, save_path(id)), error |-> "none"]
    ELSE [store |-> files, error |-> "none"]

(***************************************************************************)
(* Procedure executor: StepManager                                         *)
(*                                                                         *)
(* A procedure document is [id, title, prerequisites, sections]:           *)
(* prerequisites is the number of prerequisite statements and sections[i]  *)
(* the number of steps of the i-th subprocedure; the texts are only        *)
(* printed. The executor blocks in _require_yes only; a position is the    *)
(* confirmation it is blocked in: "prereq", "step" (of subprocedure sub,   *)
(* step), "subdone" (of subprocedure sub), or "complete".                  *)
(***************************************************************************)
Position(p, sub, step) == [pc |-> p, sub |-> sub, step |-> step]

Confirming == {"prereq", "step", "subdone"}

\* lines 152-161 without the reset of line 157
run_steps_without_reset(sections, section_idx, from) ==
    IF from < sections[section_idx + 1]
    THEN Position("step", section_idx, from)
    ELSE Position("subdone", section_idx, from)

\* the loop of lines 152-155 from iteration `from` on, then lines 157-161
run_steps(sections, section_idx, from) ==
    IF from < sections[section_idx + 1]
    THEN Position("step", section_idx, from)
    ELSE Position("subdone", section_idx, 0)

run_single_subprocedure_always_skipping(sections, section_idx, cur_sub, cur_step) ==
    LET start_step == IF section_idx = cur_sub THEN cur_step ELSE 0
    IN  run_steps(sections, section_idx, start_step + 1)

\* a starting step past the end is brought back to the last step
run_single_subprocedure_clamping(sections, section_idx, cur_sub, cur_step) ==
    LET start_step == IF section_idx = cur_sub THEN cur_step ELSE 0
        from == IF start_step > 0 THEN start_step + 1 ELSE start_step
        n == sections[section_idx + 1]
    IN  run_steps(sections, section_idx, IF from >= n /\ n > 0 THEN n - 1 ELSE from)

\* assistant.py 137-161, up to the first confirmation it blocks in
run_single_subprocedure(sections, section_idx, cur_sub, cur_step) ==
    LET start_step == IF section_idx = cur_sub THEN cur_step ELSE 0
        from == IF start_step > 0 THEN start_step + 1 ELSE start_step
    IN  run_steps(sections, section_idx, from)

\* assistant.py 131-135 from iteration s_idx on (current_subprocedure_idx is
\* set to s_idx before the subprocedure runs), then the footer
run_subprocedures(sections, s_idx, cur_sub, cur_step) ==
    IF s_idx < Len(sections)
    THEN run_single_subprocedure(sections, s_idx, s_idx, cur_step)
    ELSE Position("complete", cur_sub, cur_step)

run_prerequisites_always_asking(doc, sub, step) == Position("prereq", sub, step)

run_prerequisites_skipped_on_resume(doc, sub, step) ==
    IF doc.prerequisites = 0 \/ sub > 0 \/ step > 0
    THEN run_subprocedures(doc.sections, sub, sub, step)
    ELSE Position("prereq", sub, step)

\* assistant.py 63-66 and 116-125: run() up to the first confirmation
run_prerequisites(doc, sub, step) ==
    IF doc.prerequisites = 0
    THEN run_subprocedures(doc.sections, sub, sub, step)
    ELSE Position("prereq", sub, step)

\* the step loop advancing by two
after_confirmation_skipping_a_step(doc, at) ==
    IF at.pc = "prereq" THEN run_subprocedures(doc.sections, at.sub, at.sub, at.step)
    ELSE IF at.pc = "step" THEN run_steps(doc.sections, at.sub, at.step + 2)
    ELSE run_subprocedures(doc.sections, at.sub + 1, at.sub, at.step)

\* the subprocedure loop advancing by two
after_confirmation_skipping_a_subprocedure(doc, at) ==
    IF at.pc = "prereq" THEN run_subprocedures(doc.sections, at.sub, at.sub, at.step)
    ELSE IF at.pc = "step" THEN run_steps(doc.sections, at.sub, at.step + 1)
    ELSE run_subprocedures(doc.sections, at.sub + 2, at.sub, at.step)

\* where the executor blocked at `at` goes once the confirmation is accepted
after_confirmation(doc, at) ==
    IF at.pc = "prereq" THEN run_subprocedures(doc.sections, at.sub, at.sub, at.step)
    ELSE IF at.pc = "step" THEN run_steps(doc.sections, at.sub, at.step + 1)
    ELSE run_subprocedures(doc.sections, at.sub + 1, at.sub, at.step)

require_yes_accepts_leading_y(answer) ==
    LET a == lower(strip(answer))
    IN  a # <<>> /\ a[1] = "y"

\* assistant.py 94-95
require_yes_accepts(answer) ==
    LET a == lower(strip(answer))
    IN  Contains(a, <<"y", "e", "s">>) \/ a = <<"y">>

\* the prompt _require_yes is called with at a position
PromptAt(at) ==
    IF at.pc = "prereq"
    THEN Prompt("Have all prerequisites been reviewed and satisfied:", 0)
    ELSE IF at.pc = "step" THEN Prompt("Finished step:", at.step + 1)
    ELSE Prompt("Subprocedure completed. Confirm before moving to the next subprocedure:",
                at.sub)

ConfirmationAt(at) ==
    IF at.pc = "prereq" THEN <<"prereq">>
    ELSE IF at.pc = "step" THEN <<"step", at.sub, at.step>>
    ELSE <<"sub", at.sub>>

Here == Position(pc, current_subprocedure_idx, current_step_idx)

\* the executor arrives at position `to`: its fields, and what is observed
Arrive(to) ==
    /\ pc' = to.pc
    /\ current_subprocedure_idx' = to.sub
    /\ current_step_idx' = to.step
    /\ entered' = IF to.pc \in {"step", "subdone"}
                     /\ (entered = <<>> \/ entered[Len(entered)] # to.sub)
                  THEN Append(entered, to.sub) ELSE entered
    /\ first_steps' = IF to.pc = "step" /\ ~\E f \in first_steps : f[1] = to.sub
                      THEN first_steps \cup {<<to.sub, to.step>>} ELSE first_steps

(***************************************************************************)
(* The executor's runs                                                     *)
(***************************************************************************)
MaxSteps == 3

ProcedureIds == {"p1", "p2"}

\* the subprocedure lists of p1: none, one or two subprocedures of 0..MaxSteps
\* steps each
SectionLists ==
    {<<>>} \cup {<<a>> : a \in 0..MaxSteps}
           \cup {<<a, b>> : a \in 0..MaxSteps, b \in 0..MaxSteps}

Document(id, prerequisites, sections) ==
    [id |-> id, title |-> [of |-> id], prerequisites |-> prerequisites,
     sections |-> sections]

Init ==
    \* p1 has any of the shapes, with or without a prerequisite; p2 is a
    \* second procedure, of one subprocedure of one step
    /\ \E n \in {0, 1}, l \in SectionLists :
          procedures = [id \in ProcedureIds |->
                           IF id = "p1" THEN Document(id, n, l)
                           ELSE Document(id, 0, <<1>>)]
    /\ store = {}
    /\ procedure_id = ""
    /\ current_subprocedure_idx = 0
    /\ current_step_idx = 0
    /\ start = [resumed |-> FALSE, saved |-> FALSE, sub |-> 0, step |-> 0]
    /\ verdict = "none"
    /\ entered = <<>>
    /\ first_steps = {}
    /\ accepted = <<>>
    /\ interrupted = None
    /\ ChannelUnused
    /\ ProgramUnused
    /\ StartupUnused
    /\ text = <<>>
    /\ choice = None
    /\ parsed = FALSE

\* StepManager(procedure, input_mode, sub, step).run() up to its first
\* confirmation, or to the end when it asks for none
Run(id, input_mode, resumed, sub, step) ==
    LET doc == procedures[id]
        to == run_prerequisites(doc, sub, step)
        cleared == clear_save(store, id)
    IN  /\ procedure_id' = id
        /\ start' = [resumed |-> resumed, saved |-> exists(store, save_path(id)),
                   sub |-> sub, step |-> step]
        /\ entered' = IF to.pc \in {"step", "subdone"} THEN <<to.sub>> ELSE <<>>
        /\ first_steps' = IF to.pc = "step" THEN {<<to.sub, to.step>>} ELSE {}
        /\ pc' = to.pc
        /\ current_subprocedure_idx' = to.sub
        /\ current_step_idx' = to.step
        /\ accepted' = <<>>
        /\ verdict' = "none"
        /\ mode' = input_mode
        /\ request' = IF to.pc = "complete" THEN NoRequest
                      ELSE Request(PromptAt(to), FALSE, None)
        /\ shown' = IF to.pc = "complete" THEN 0 ELSE 1
        /\ transcript' = None
        /\ result' = None
        /\ typed' = None
        /\ store' = IF to.pc = "complete" THEN cleared.store ELSE store
        /\ error' = IF to.pc = "complete" THEN cleared.error ELSE error
        /\ UNCHANGED <<procedures, selected, stream, varsParse>>

\* the handler of main has mode "text" unless the sentinel was typed at the
\* selection prompt, which is shown only when saves exist
StartupModes == IF store = {} THEN {"text"} ELSE {"text", "voice"}

\* assistant.py 250-263: no save is resumed, a procedure is retrieved and run
StartFresh ==
    /\ pc = "idle"
    /\ \E id \in ProcedureIds, m \in StartupModes : Run(id, m, FALSE, 0, 0)
    /\ interrupted' = None
    /\ UNCHANGED varsStartup

\* assistant.py 220-238 and 263: a save is selected and its procedure is run
\* from the indices of the save
Resume ==
    /\ pc = "idle"
    /\ \E f \in store, m \in {"text", "voice"} :
          /\ f.state.procedure_id \in DOMAIN procedures
          /\ Run(f.state.procedure_id, m, TRUE,
                 f.state.subprocedure_idx, f.state.step_idx)
          /\ interrupted' =
                IF interrupted # None /\ interrupted[1].procedure_id = f.state.procedure_id
                THEN interrupted ELSE None
    /\ UNCHANGED varsStartup

\* _require_yes with _save_state called before the answer is tested
RequireYesSavingEveryAnswer(o, heard) ==
    LET doc == procedures[procedure_id]
        to == after_confirmation(doc, Here)
        saved == save_state(store, procedure_id, doc.title,
                            current_subprocedure_idx, current_step_idx)
        cleared == clear_save(saved, procedure_id)
    IN  IF require_yes_accepts(o.value)
        THEN /\ verdict' = "accepted"
             /\ accepted' = Append(accepted, ConfirmationAt(Here))
             /\ Arrive(to)
             /\ store' = IF to.pc = "complete" THEN cleared.store ELSE saved
             /\ error' = IF to.pc = "complete" THEN cleared.error ELSE error
             /\ Returns(o, heard,
                        IF to.pc = "complete" THEN request
                        ELSE Request(PromptAt(to), FALSE, None),
                        IF to.pc = "complete" THEN shown ELSE 1)
        ELSE /\ verdict' = "rejected"
             /\ Returns(o, heard, request, 1)
             /\ store' = saved
             /\ UNCHANGED <<pc, current_subprocedure_idx, current_step_idx,
                            entered, first_steps, accepted, error>>

\* _require_yes gets `answer` from get_input (o is what that invocation did)
RequireYes(o, heard) ==
    LET doc == procedures[procedure_id]
        to == after_confirmation(doc, Here)
        saved == save_state(store, procedure_id, doc.title,
                            current_subprocedure_idx, current_step_idx)
        cleared == clear_save(saved, procedure_id)
    IN  IF require_yes_accepts(o.value)
        THEN /\ verdict' = "accepted"
             /\ accepted' = Append(accepted, ConfirmationAt(Here))
             /\ Arrive(to)
             /\ store' = IF to.pc = "complete" THEN cleared.store ELSE saved
             /\ error' = IF to.pc = "complete" THEN cleared.error ELSE error
             /\ Returns(o, heard,
                        IF to.pc = "complete" THEN request
                        ELSE Request(PromptAt(to), FALSE, None),
                        IF to.pc = "complete" THEN shown ELSE 1)
        ELSE /\ verdict' = "rejected"
             /\ Returns(o, heard, request, 1)
             /\ UNCHANGED <<pc, current_subprocedure_idx, current_step_idx,
                            entered, first_steps, accepted, store, error>>

\* what the user types and says at a confirmation
Lines == {<<"y", "e", "s">>, <<"n", "o">>, Sentinel}

Speech == {<<>>, <<"Y", "e", "s", ".">>}

\* the user types a line at a confirmation
TypeLineOf(lines) ==
    /\ pc \in Confirming
    /\ mode = "text"
    /\ \E line \in lines :
          LET o == text_mode(request, line)
          IN  /\ typed' = Some(line)
              /\ \/ /\ Recurse(o, None)
                    /\ UNCHANGED <<pc, error, store, current_subprocedure_idx,
                                   current_step_idx, varsHistory>>
                 \/ /\ o.kind = "return"
                    /\ RequireYes(o, None)
    /\ UNCHANGED <<procedures, procedure_id, start, interrupted, selected, stream,
                   varsStartup, varsParse>>

\* the user starts and stops a recording at a confirmation
SpeakOf(speeches) ==
    /\ pc \in Confirming
    /\ mode = "voice"
    /\ \E frames \in BOOLEAN, speech \in speeches :
          LET heard == record_and_transcribe(frames, speech)
              o == voice_mode(request, heard)
          IN  \/ /\ Recurse(o, Some(heard))
                 /\ UNCHANGED <<pc, error, store, current_subprocedure_idx,
                                current_step_idx, varsHistory>>
              \/ /\ o.kind = "return"
                 /\ RequireYes(o, Some(heard))
    /\ typed' = None
    /\ UNCHANGED <<procedures, procedure_id, start, interrupted, selected, stream,
                   varsStartup, varsParse>>

\* the process is killed while it is blocked in a confirmation: the executor
\* is lost, the files stay
Interrupt ==
    /\ pc \in Confirming
    /\ pc' = "idle"
    /\ interrupted' =
          Some([procedure_id |-> procedure_id,
                prereq |-> \E i \in DOMAIN accepted : accepted[i] = <<"prereq">>,
                last |-> IF accepted = <<>> THEN None
                         ELSE Some(accepted[Len(accepted)])])
    /\ procedure_id' = ""
    /\ current_subprocedure_idx' = 0
    /\ current_step_idx' = 0
    /\ start' = [resumed |-> FALSE, saved |-> FALSE, sub |-> 0, step |-> 0]
    /\ verdict' = "none"
    /\ entered' = <<>>
    /\ first_steps' = {}
    /\ accepted' = <<>>
    /\ mode' = "text"
    /\ request' = NoRequest
    /\ shown' = 0
    /\ transcript' = None
    /\ result' = None
    /\ typed' = None
    /\ stream' = "none"
    /\ saves' = <<>>
    /\ output' = <<>>
    /\ UNCHANGED <<procedures, store, error, selected, varsParse>>

\* run() has returned and main ends
Exit ==
    /\ pc = "complete"
    /\ pc' = "idle"
    /\ interrupted' = None
    /\ procedure_id' = ""
    /\ current_subprocedure_idx' = 0
    /\ current_step_idx' = 0
    /\ start' = [resumed |-> FALSE, saved |-> FALSE, sub |-> 0, step |-> 0]
    /\ verdict' = "none"
    /\ entered' = <<>>
    /\ first_steps' = {}
    /\ accepted' = <<>>
    /\ mode' = "text"
    /\ request' = NoRequest
    /\ shown' = 0
    /\ transcript' = None
    /\ result' = None
    /\ typed' = None
    /\ stream' = "none"
    /\ saves' = <<>>
    /\ output' = <<>>
    /\ UNCHANGED <<procedures, store, error, selected, varsParse>>

TypeLine == TypeLineOf(Lines)

Speak == SpeakOf(Speech)

Next == StartFresh \/ Resume \/ TypeLine \/ Speak \/ Interrupt \/ Exit

Spec == Init /\ [][Next]_vars

(***************************************************************************)
(* The confirmation gate on its own: fresh runs of one procedure (a        *)
(* prerequisite, one subprocedure of two steps), answered with a wider     *)
(* range of typed and spoken answers                                       *)
(***************************************************************************)
ConfirmLines ==
    {<<"y">>, <<"Y">>, <<"Y", "e", "s", " ", "p", "l", "e", "a", "s", "e">>,
     <<" ", "y", "e", "s", " ">>, <<"o", "h", " ", "Y", "E", "S">>,
     <<"n", "o">>, <<"y", "e", "p">>, <<"y", " ", "e", "s">>, <<"y", "y">>,
     <<" ">>, <<>>, Sentinel}

ConfirmSpeech ==
    {<<>>, <<"Y", "e", "s", ".">>, <<"N", "o", ".">>, <<"Y">>, <<"e", "y", "e", "s">>,
     <<"4", "0", "4">>}

InitConfirm ==
    /\ procedures = [id \in ProcedureIds |-> Document(id, 1, <<2>>)]
    /\ store = {}
    /\ procedure_id = ""
    /\ current_subprocedure_idx = 0
    /\ current_step_idx = 0
    /\ start = [resumed |-> FALSE, saved |-> FALSE, sub |-> 0, step |-> 0]
    /\ verdict = "none"
    /\ entered = <<>>
    /\ first_steps = {}
    /\ accepted = <<>>
    /\ interrupted = None
    /\ ChannelUnused
    /\ ProgramUnused
    /\ StartupUnused
    /\ text = <<>>
    /\ choice = None
    /\ parsed = FALSE

ConfirmStart ==
    /\ pc = "idle"
    /\ store = {}
    /\ Run("p1", "text", FALSE, 0, 0)
    /\ interrupted' = None
    /\ UNCHANGED varsStartup

ConfirmTypeLine == TypeLineOf(ConfirmLines)

ConfirmSpeak == SpeakOf(ConfirmSpeech)

NextConfirm == ConfirmStart \/ ConfirmTypeLine \/ ConfirmSpeak \/ Exit

SpecConfirm == InitConfirm /\ [][NextConfirm]_vars

(***************************************************************************)
(* Harness for the channel: the two kinds of request of                    *)
(* ProcedureRetriever (input_to_procedure.py): a free-text request and     *)
(* _choose_operation's numbered choice among len(part_data) operations     *)
(***************************************************************************)
MaxOperations == 3

\* int(s) of Python for a stripped s: an optional sign and decimal digits
\* (the underscore and non-ASCII digit forms are left out); None is ValueError
py_int(s) ==
    LET signed == s # <<>> /\ s[1] \in {"+", "-"}
        ds == IF signed THEN Tail(s) ELSE s
    IN  IF ds = <<>> \/ \E i \in DOMAIN ds : ~IsDigit(ds[i]) THEN None
        ELSE Some(IF signed /\ s[1] = "-" THEN 0 - DigitsValue(ds) ELSE DigitsValue(ds))

\* input_to_procedure.py 139-146: int(get_input(...)) - 1, then part_data[idx]
\* (a negative idx counts from the end of the list)
choose_operation(value, n) ==
    LET v == py_int(value)
    IN  IF v = None THEN [error |-> "ValueError", selected |-> None]
        ELSE IF v[1] - 1 >= n \/ v[1] - 1 < 0 - n
        THEN [error |-> "IndexError", selected |-> None]
        ELSE [error |-> "none", selected |-> Some(v[1] - 1)]

OperationRequest(n) == Request(Prompt("Select operation (number):", 0), TRUE, Some(n))

DescribeRequest == Request(Prompt("Describe what you want to do:", 0), FALSE, None)

ChoiceLines ==
    {<<>>, <<"1">>, <<"2">>, <<" ", "3", " ">>, <<"7">>, <<"0">>, <<"-", "1">>,
     <<"t", "w", "o">>, Sentinel, <<"4", "0", "4", " ">>}

ChoiceSpeech ==
    {<<>>, <<" ">>, <<"O", "n", "e", ".">>, <<"t", "w", "o">>,
     <<"O", "p", "t", "i", "o", "n", " ", "3", ".">>,
     <<"s", "e", "v", "e", "n">>, <<"z", "e", "r", "o">>, <<"b", "l", "a", "h">>,
     <<"4", "0", "4">>}

InitInput ==
    /\ mode \in {"text", "voice"}
    /\ \E r \in {DescribeRequest} \cup {OperationRequest(n) : n \in 1..MaxOperations} :
          request = r
    /\ shown = 1
    /\ transcript = None
    /\ result = None
    /\ typed = None
    /\ stream = "none"
    /\ pc = "get_input"
    /\ error = "none"
    /\ selected = None
    /\ StartupUnused
    /\ text = <<>>
    /\ choice = None
    /\ parsed = FALSE
    /\ ExecutorUnused

\* what the retriever does with the value get_input returned
RetrieverContinues(o) ==
    /\ pc' = "returned"
    /\ IF request.expect_choice
       THEN LET c == choose_operation(o.value, request.max_choice[1])
            IN  error' = c.error /\ selected' = c.selected
       ELSE UNCHANGED <<error, selected>>

\* the user types a line
InputTypeLine ==
    /\ pc = "get_input"
    /\ mode = "text"
    /\ \E line \in ChoiceLines :
          LET o == text_mode(request, line)
          IN  /\ typed' = Some(line)
              /\ \/ Recurse(o, None) /\ UNCHANGED varsProgram
                 \/ Returns(o, None, request, shown) /\ RetrieverContinues(o)
    /\ UNCHANGED <<stream, varsStartup, varsParse, varsExecutor, varsHistory>>

\* the user starts and stops a recording
InputSpeak ==
    /\ pc = "get_input"
    /\ mode = "voice"
    /\ \E frames \in BOOLEAN, speech \in ChoiceSpeech :
          LET heard == record_and_transcribe(frames, speech)
              o == voice_mode(request, heard)
          IN  \/ Recurse(o, Some(heard)) /\ UNCHANGED varsProgram
              \/ Returns(o, Some(heard), request, shown) /\ RetrieverContinues(o)
    /\ typed' = None
    /\ UNCHANGED <<stream, varsStartup, varsParse, varsExecutor, varsHistory>>

\* the retriever, when no exception ended it, issues its next request on the
\* same handler
InputNextCall ==
    /\ pc = "returned"
    /\ error = "none"
    /\ \E r \in {DescribeRequest} \cup {OperationRequest(n) : n \in 1..MaxOperations} :
          Call(r)
    /\ pc' = "get_input"
    /\ selected' = None
    /\ UNCHANGED <<error, varsStartup, varsParse, varsExecutor, varsHistory>>

NextInput == InputTypeLine \/ InputSpeak \/ InputNextCall

SpecInput == InitInput /\ [][NextInput]_vars

(***************************************************************************)
(* The voice capture in steps: record_and_transcribe (text_to_speech.py    *)
(* 66-77) blocks twice on input(), before Recorder.start and before        *)
(* Recorder.stop. input() raises EOFError when the standard input is at    *)
(* its end and KeyboardInterrupt on an interrupt; nothing in               *)
(* record_and_transcribe, get_input or their callers catches either.       *)
(***************************************************************************)
\* Recorder.start, lines 28-37: the stream is opened and started
recorder_start(st) == "open"

\* Recorder.stop, lines 39-42: the stream is stopped and closed
recorder_stop(st) == "none"

InputErrors == {"EOFError", "KeyboardInterrupt"}

\* line 69 returns, line 70 runs: the recording starts
RecordStart ==
    /\ pc = "get_input"
    /\ mode = "voice"
    /\ pc' = "recording"
    /\ stream' = recorder_start(stream)
    /\ UNCHANGED <<mode, request, shown, transcript, result, typed, error, selected,
                   varsStartup, varsParse, varsExecutor, varsHistory>>

\* line 69 raises: no recorder was started
RecordNotStarted ==
    /\ pc = "get_input"
    /\ mode = "voice"
    /\ pc' = "unwound"
    /\ error' \in InputErrors
    /\ UNCHANGED <<varsChannel, selected, varsStartup, varsParse, varsExecutor,
                   varsHistory>>

\* line 71 returns, lines 72-77 run, and get_input goes on with the transcript
RecordStop ==
    /\ pc = "recording"
    /\ stream' = recorder_stop(stream)
    /\ typed' = None
    /\ \E frames \in BOOLEAN, speech \in ChoiceSpeech :
          LET heard == record_and_transcribe(frames, speech)
              o == voice_mode(request, heard)
          IN  \/ /\ Recurse(o, Some(heard))
                 /\ pc' = "get_input"
                 /\ UNCHANGED <<error, selected>>
              \/ Returns(o, Some(heard), request, shown) /\ RetrieverContinues(o)
    /\ UNCHANGED <<varsStartup, varsParse, varsExecutor, varsHistory>>

\* line 71 returns, the recorder is stopped, and transcribe_audio raises
RecordTranscribeFails ==
    /\ pc = "recording"
    /\ stream' = recorder_stop(stream)
    /\ pc' = "unwound"
    /\ error' = "RuntimeError"
    /\ UNCHANGED <<mode, request, shown, transcript, result, typed, selected,
                   varsStartup, varsParse, varsExecutor, varsHistory>>

\* line 71 raises while the recording runs: line 72 is not reached
RecordAbort ==
    /\ pc = "recording"
    /\ pc' = "unwound"
    /\ error' \in InputErrors
    /\ UNCHANGED <<varsChannel, selected, varsStartup, varsParse, varsExecutor,
                   varsHistory>>

NextRecord ==
    \/ RecordStart \/ RecordNotStarted \/ RecordStop \/ RecordTranscribeFails
    \/ RecordAbort \/ InputTypeLine \/ InputNextCall

SpecRecord == InitInput /\ [][NextRecord]_vars

(***************************************************************************)
(* Startup: main and select_startup_option (assistant.py 195-263)          *)
(*                                                                         *)
(* A save file holds a record written by _save_state, or bytes that are no *)
(* JSON document (Garbage). A record may name a procedure that the         *)
(* retriever no longer has. The printed lines are kept in output.          *)
(***************************************************************************)
Garbage == [garbage |-> TRUE]

\* json.load: None stands for the exception it raises
json_load(content) == IF content = Garbage THEN None ELSE Some(content)

EntryLine(i, title, step_num) ==
    [kind |-> "entry", i |-> i, title |-> title, step_num |-> step_num]

NewProcedureLine(i) == [kind |-> "new", i |-> i]

Message(t) == [kind |-> "message", text |-> t]

\* a listing line for an unreadable file that is made like that of an empty
\* JSON object: the defaults of state.get, step 0 + 1
listing_entry_by_defaults(i, f) ==
    LET loaded == json_load(f.state)
    IN  IF loaded = None THEN EntryLine(i, [stem |-> f.path.stem], 1)
        ELSE EntryLine(i, loaded[1].procedure_title, loaded[1].step_idx + 1)

\* assistant.py 199-209: the line printed for the i-th save; the except
\* clause assigns the generic values and prints nothing of its own
listing_entry(i, f) ==
    LET loaded == json_load(f.state)
    IN  IF loaded = None THEN EntryLine(i, [stem |-> f.path.stem], 0)
        ELSE EntryLine(i, loaded[1].procedure_title, loaded[1].step_idx + 1)

\* assistant.py 198-211
listing(files_list) ==
    [i \in 1..Len(files_list) |-> listing_entry(i, files_list[i])]
        \o <<NewProcedureLine(Len(files_list) + 1)>>

\* the fallback of lines 216-218 with the first save in place of len(saves)
choice_index_defaulting_to_first(value, n) ==
    LET v == py_int(strip(value))
    IN  IF v = None THEN [invalid |-> TRUE, idx |-> 0]
        ELSE [invalid |-> FALSE, idx |-> v[1] - 1]

\* assistant.py 212-218: strip(), int(choice) - 1, len(saves) on ValueError
choice_index(value, n) ==
    LET v == py_int(strip(value))
    IN  IF v = None THEN [invalid |-> TRUE, idx |-> n]
        ELSE [invalid |-> FALSE, idx |-> v[1] - 1]

InvalidInput == Message("Invalid input. Starting new procedure.")

NotFound == Message("Saved procedure not found. Starting new procedure.")

Option(kind, err, messages, state) ==
    [kind |-> kind, error |-> err, messages |-> messages, state |-> state]

\* procedures[state["procedure_id"]] in place of procedures.get(...)
startup_option_by_subscript(files_list, idx, procs) ==
    IF 0 <= idx /\ idx < Len(files_list)
    THEN LET loaded == json_load(files_list[idx + 1].state)
         IN  IF loaded = None THEN Option("raise", "JSONDecodeError", <<>>, None)
             ELSE IF loaded[1].procedure_id \notin DOMAIN procs
             THEN Option("raise", "KeyError", <<>>, None)
             ELSE Option("resume", "none", <<>>, loaded)
    ELSE Option("fresh", "none", <<>>, None)

\* assistant.py 220-240 for the index choice_idx: what select_startup_option
\* does, "resume" (a StepManager is returned), "fresh" (None is returned) or
\* "raise" (json.load of line 223 is in no try statement)
startup_option(files_list, idx, procs) ==
    IF 0 <= idx /\ idx < Len(files_list)
    THEN LET loaded == json_load(files_list[idx + 1].state)
         IN  IF loaded = None THEN Option("raise", "JSONDecodeError", <<>>, None)
             ELSE IF loaded[1].procedure_id \notin DOMAIN procs
             THEN Option("fresh", "none", <<NotFound>>, None)
             ELSE Option("resume", "none", <<>>, loaded)
    ELSE Option("fresh", "none", <<>>, None)

SelectRequest == Request(Prompt("Select option (number):", 0), FALSE, None)

SaveOf(id, sub, step) ==
    [path |-> save_path(id),
     state |-> [procedure_id |-> id, procedure_title |-> [of |-> id],
                subprocedure_idx |-> sub, step_idx |-> step]]

\* the stores the program starts with: at most one file per name; the save
\* of p1 at any of its steps or at its second subprocedure, the save of p2 or
\* garbage in its place, the save of a procedure that is gone. A save can
\* also hold indices the procedure document does not have (the document was
\* replaced by a shorter one after the save, or the file was edited): for p1
\* a subprocedure index or a step index past the end, for p2 a subprocedure
\* index past the end
StartupStores ==
    {a \cup b \cup c :
        a \in {{}} \cup {{SaveOf("p1", 0, k)} : k \in 0..(MaxSteps - 1)}
                   \cup {{SaveOf("p1", 1, 0)}, {SaveOf("p1", 2, 0)},
                         {SaveOf("p1", 1, MaxSteps)}},
        b \in {{}, {SaveOf("p2", 0, 0)}, {SaveOf("p2", 1, 0)},
               {[path |-> save_path("p2"), state |-> Garbage]}},
        c \in {{}, {SaveOf("gone", 0, 1)}}}

InitStartup ==
    /\ procedures = [id \in ProcedureIds |->
                        IF id = "p1" THEN Document(id, 1, <<MaxSteps, 1>>)
                        ELSE Document(id, 0, <<1>>)]
    /\ store \in StartupStores
    /\ procedure_id = ""
    /\ current_subprocedure_idx = 0
    /\ current_step_idx = 0
    /\ start = [resumed |-> FALSE, saved |-> FALSE, sub |-> 0, step |-> 0]
    /\ verdict = "none"
    /\ entered = <<>>
    /\ first_steps = {}
    /\ accepted = <<>>
    /\ interrupted = None
    /\ ChannelUnused
    /\ ProgramUnused
    /\ StartupUnused
    /\ text = <<>>
    /\ choice = None
    /\ parsed = FALSE

\* list(Path(SAVE_DIR).glob("*.json")): the files in an order of the system's
Orderings(files) ==
    {order \in [1..Cardinality(files) -> files] :
        \A i, j \in DOMAIN order : order[i] = order[j] => i = j}

\* main 250-253 and select_startup_option 196-212, up to the selection prompt
\* (or to its return when there is no save)
Startup ==
    /\ pc = "idle"
    /\ \E order \in Orderings(store) :
          /\ saves' = order
          /\ IF order = <<>>
             THEN /\ output' = <<Message("No saved procedures found.")>>
                  /\ pc' = "retrieve"
                  /\ UNCHANGED varsChannel
             ELSE /\ output' = listing(order)
                  /\ pc' = "select"
                  /\ Call(SelectRequest)
    /\ UNCHANGED <<error, selected, varsParse, varsExecutor, varsHistory>>

\* what the user types and says at the selection prompt
SelectLines ==
    {<<"1">>, <<"2">>, <<"3">>, <<"4">>, <<" ", "2", " ">>, <<"0">>, <<"-", "1">>,
     <<"t", "w", "o">>, <<>>, Sentinel}

SelectSpeech == {<<>>, <<"2">>, <<"T", "w", "o", ".">>}

\* line 212: the user types a line at the selection prompt
SelectTypeLine ==
    /\ pc = "select"
    /\ mode = "text"
    /\ \E line \in SelectLines :
          LET o == text_mode(request, line)
          IN  /\ typed' = Some(line)
              /\ \/ Recurse(o, None) /\ UNCHANGED pc
                 \/ Returns(o, None, request, shown) /\ pc' = "selected"
    /\ UNCHANGED <<error, selected, stream, varsStartup, varsParse, varsExecutor,
                   varsHistory>>

\* line 212: the user starts and stops a recording at the selection prompt
SelectSpeak ==
    /\ pc = "select"
    /\ mode = "voice"
    /\ \E frames \in BOOLEAN, speech \in SelectSpeech :
          LET heard == record_and_transcribe(frames, speech)
              o == voice_mode(request, heard)
          IN  \/ Recurse(o, Some(heard)) /\ UNCHANGED pc
              \/ Returns(o, Some(heard), request, shown) /\ pc' = "selected"
    /\ typed' = None
    /\ UNCHANGED <<error, selected, stream, varsStartup, varsParse, varsExecutor,
                   varsHistory>>

\* lines 212-243 once get_input has returned, and main 254-263 up to the
\* first confirmation of a resumed run
StartupDecide ==
    /\ pc = "selected"
    /\ LET c == choice_index(result[1], Len(saves))
           opt == startup_option(saves, c.idx, procedures)
       IN  /\ output' = output \o (IF c.invalid THEN <<InvalidInput>> ELSE <<>>)
                               \o opt.messages
           /\ saves' = saves
           /\ \/ /\ opt.kind = "resume"
                 /\ Run(opt.state[1].procedure_id, mode, TRUE,
                        opt.state[1].subprocedure_idx, opt.state[1].step_idx)
                 /\ UNCHANGED interrupted
              \/ /\ opt.kind = "fresh"
                 /\ pc' = "retrieve"
                 /\ UNCHANGED <<varsChannel, error, selected, varsParse, varsExecutor,
                                varsHistory>>
              \/ /\ opt.kind = "raise"
                 /\ pc' = "failed"
                 /\ error' = opt.error
                 /\ UNCHANGED <<varsChannel, selected, varsParse, varsExecutor,
                                varsHistory>>

\* main 254-263: no manager was returned; a procedure is retrieved and run
Retrieve ==
    /\ pc = "retrieve"
    /\ \E id \in ProcedureIds : Run(id, mode, FALSE, 0, 0)
    /\ UNCHANGED <<interrupted, varsStartup>>

\* main 258-260: the retriever gives no procedure and main returns
NoProcedure ==
    /\ pc = "retrieve"
    /\ pc' = "idle"
    /\ mode' = "text"
    /\ request' = NoRequest
    /\ shown' = 0
    /\ transcript' = None
    /\ result' = None
    /\ typed' = None
    /\ saves' = <<>>
    /\ output' = <<>>
    /\ UNCHANGED <<stream, error, selected, varsParse, varsExecutor, varsHistory>>

NextStartup ==
    \/ Startup \/ SelectTypeLine \/ SelectSpeak \/ StartupDecide \/ Retrieve
    \/ NoProcedure \/ TypeLine \/ Speak \/ Exit

SpecStartup == InitStartup /\ [][NextStartup]_vars

(***************************************************************************)
(* Fresh runs in which writing the checkpoint can fail                     *)
(*                                                                         *)
(* open(self.save_path, "w") raises OSError and leaves the file as it was, *)
(* or json.dump (or the close of the with statement) raises after open has *)
(* truncated the file, which is then no JSON document. No try statement    *)
(* stands between _save_state and the top of the program.                  *)
(***************************************************************************)
\* assistant.py 84-85 when the write fails: the files it can leave behind
write_file_failing(files, path) ==
    {files, {f \in files : f.path # path} \cup {[path |-> path, state |-> Garbage]}}

\* an except clause around line 96 that goes on as after a successful write
require_yes_swallowing_write_error(doc, at) == after_confirmation(doc, at)

\* assistant.py 93-97 and 63-67 when _save_state raises: the exception leaves
\* the loop, _require_yes, the step loops and run()
require_yes_on_write_error(doc, at) == Position("failed", at.sub, at.step)

\* _require_yes gets an answer it accepts and _save_state raises
SaveFails(o, heard) ==
    LET to == require_yes_on_write_error(procedures[procedure_id], Here)
    IN  /\ require_yes_accepts(o.value)
        /\ verdict' = "accepted"
        /\ Arrive(to)
        /\ store' \in write_file_failing(store, save_path(procedure_id))
        /\ error' = "OSError"
        /\ Returns(o, heard, request, shown)
        /\ UNCHANGED accepted

TypeLineWriteFails ==
    /\ pc \in Confirming
    /\ mode = "text"
    /\ \E line \in Lines :
          LET o == text_mode(request, line)
          IN  /\ o.kind = "return"
              /\ typed' = Some(line)
              /\ SaveFails(o, None)
    /\ UNCHANGED <<procedures, procedure_id, start, interrupted, selected, stream,
                   varsStartup, varsParse>>

SpeakWriteFails ==
    /\ pc \in Confirming
    /\ mode = "voice"
    /\ \E frames \in BOOLEAN, speech \in Speech :
          LET heard == record_and_transcribe(frames, speech)
              o == voice_mode(request, heard)
          IN  /\ o.kind = "return"
              /\ SaveFails(o, Some(heard))
    /\ typed' = None
    /\ UNCHANGED <<procedures, procedure_id, start, interrupted, selected, stream,
                   varsStartup, varsParse>>

NextFault ==
    StartFresh \/ TypeLine \/ Speak \/ TypeLineWriteFails \/ SpeakWriteFails \/ Exit

SpecFault == Init /\ [][NextFault]_vars

(***************************************************************************)
(* Runs that are answered: StepManager.run() from any start position, not  *)
(* interrupted. The store the program starts with holds nothing or the     *)
(* record an earlier run of p1 wrote at one of its confirmations. Whoever  *)
(* answers does, in the end, give an answer that _require_yes accepts.     *)
(***************************************************************************)
\* the records _save_state writes in a run of a procedure with these
\* sections: (s, k) at the confirmation of step k of subprocedure s, (s, 0)
\* at the completion confirmation of s
SavedPositions(sections) ==
    {p \in (0..(Len(sections) - 1)) \X (0..MaxSteps) :
        p[2] = 0 \/ p[2] < sections[p[1] + 1]}

InitLive ==
    /\ \E n \in {0, 1}, l \in SectionLists :
          /\ procedures = [id \in ProcedureIds |->
                              IF id = "p1" THEN Document(id, n, l)
                              ELSE Document(id, 0, <<1>>)]
          /\ \/ store = {}
             \/ \E p \in SavedPositions(l) : store = {SaveOf("p1", p[1], p[2])}
    /\ procedure_id = ""
    /\ current_subprocedure_idx = 0
    /\ current_step_idx = 0
    /\ start = [resumed |-> FALSE, saved |-> FALSE, sub |-> 0, step |-> 0]
    /\ verdict = "none"
    /\ entered = <<>>
    /\ first_steps = {}
    /\ accepted = <<>>
    /\ interrupted = None
    /\ ChannelUnused
    /\ ProgramUnused
    /\ StartupUnused
    /\ text = <<>>
    /\ choice = None
    /\ parsed = FALSE

NextLive == StartFresh \/ Resume \/ TypeLine \/ Speak \/ Exit

\* the confirmation the executor is blocked in is accepted: in either mode an
\* answer that _require_yes accepts can be given (TypeLine with "yes", Speak
\* with "Yes."), so a blocked executor is one that can take such a step
Affirm ==
    /\ pc \in Confirming
    /\ accepted' = Append(accepted, ConfirmationAt(Here))

\* the executor does not stay blocked for ever with every answer rejected or
\* retried
SpecLive == InitLive /\ [][NextLive]_vars /\ WF_accepted(Affirm)

(***************************************************************************)
(* Kills: the process can be killed while it is blocked in a confirmation  *)
(* (Interrupt) and also inside _save_state, between the open() that        *)
(* truncates the file and the end of json.dump.                            *)
(***************************************************************************)
\* what a kill inside `with open(path, "w") ... json.dump(...)` leaves: the
\* files as they were (open not reached), the file truncated or holding the
\* beginning of the text (json.load rejects both), or the file written
write_file_interrupted(files, path, state) ==
    {files,
     {f \in files : f.path # path} \cup {[path |-> path, state |-> Garbage]},
     write_file(files, path, state)}

\* the answer at the confirmation was accepted and the process is killed
\* inside the _save_state of line 96
KillDuringSave ==
    /\ pc \in Confirming
    /\ store' \in write_file_interrupted(
                      store, save_path(procedure_id),
                      [procedure_id |-> procedure_id,
                       procedure_title |-> procedures[procedure_id].title,
                       subprocedure_idx |-> current_subprocedure_idx,
                       step_idx |-> current_step_idx])
    /\ pc' = "idle"
    /\ interrupted' =
          Some([procedure_id |-> procedure_id,
                prereq |-> \E i \in DOMAIN accepted : accepted[i] = <<"prereq">>,
                last |-> IF accepted = <<>> THEN None
                         ELSE Some(accepted[Len(accepted)])])
    /\ procedure_id' = ""
    /\ current_subprocedure_idx' = 0
    /\ current_step_idx' = 0
    /\ start' = [resumed |-> FALSE, saved |-> FALSE, sub |-> 0, step |-> 0]
    /\ verdict' = "none"
    /\ entered' = <<>>
    /\ first_steps' = {}
    /\ accepted' = <<>>
    /\ mode' = "text"
    /\ request' = NoRequest
    /\ shown' = 0
    /\ transcript' = None
    /\ result' = None
    /\ typed' = None
    /\ stream' = "none"
    /\ saves' = <<>>
    /\ output' = <<>>
    /\ UNCHANGED <<procedures, error, selected, varsParse>>

NextCrash == StartFresh \/ TypeLine \/ Speak \/ Interrupt \/ KillDuringSave \/ Exit

SpecCrash == Init /\ [][NextCrash]_vars

(***************************************************************************)
(* Harness for parse_choice: a text is chosen, then parsed                 *)
(***************************************************************************)
MaxFragments == 2

\* the pieces the texts are put together from: digits, number words (one
\* of them in upper case), a space, an underscore and other letters
Fragments ==
    {<<"7">>, <<"1", "2">>, <<"0">>, <<" ">>, <<"_">>, <<"t", "h">>,
     <<"o", "n", "e">>, <<"t", "h", "r", "e", "e">>, <<"t", "e", "n">>,
     <<"f", "o", "u", "r">>, <<"T", "W", "E", "N", "T", "Y">>,
     <<"p", "i", "c", "k", " ">>}

RECURSIVE Texts(_)
Texts(n) ==
    IF n = 0 THEN {<<>>}
    ELSE LET shorter == Texts(n - 1)
         IN  shorter \cup {a \o f : a \in shorter, f \in Fragments}

\* the spelled-out numbers as such, capitalised and in upper case
SpelledNumbers ==
    LET words == {get_number_words[k].word : k \in DOMAIN get_number_words}
        upper(c) == UpperChars[CHOOSE k \in DOMAIN LowerChars : LowerChars[k] = c]
    IN  words \cup {[i \in DOMAIN w |-> IF i = 1 THEN upper(w[i]) ELSE w[i]] : w \in words}
              \cup {[i \in DOMAIN w |-> upper(w[i])] : w \in words}

ParseInputs ==
    Texts(MaxFragments)
    \cup SpelledNumbers
    \cup {NatToStr(get_number_words[k].value) : k \in DOMAIN get_number_words}
    \cup {<<"p", "l", "e", "a", "s", "e", " ", "p", "i", "c", "k", " ",
            "t", "h", "r", "e", "e">>,
          <<"o", "p", "t", "i", "o", "n", " ", "7", " ", "p", "l", "e", "a", "s", "e">>,
          <<"o", "p", "t", "i", "o", "n", "7">>,
          <<"2", "n", "d", " ", "o", "n", "e">>,
          <<"b", "l", "a", "h">>}

InitParse ==
    /\ text \in ParseInputs
    /\ choice = None
    /\ parsed = FALSE
    /\ ChannelUnused
    /\ ProgramUnused
    /\ StartupUnused
    /\ ExecutorUnused

Parse ==
    /\ ~parsed
    /\ choice' = parse_choice(text)
    /\ parsed' = TRUE
    /\ UNCHANGED <<text, varsChannel, varsProgram, varsStartup, varsExecutor, varsHistory>>

NextParse == Parse

SpecParse == InitParse /\ [][NextParse]_vars

(***************************************************************************)
(* Claims about the executor and the store (checked under Spec)            *)
(***************************************************************************)
\* the first step the current run rendered, as a set: empty while it has
\* rendered none
FirstRendered ==
    {f \in first_steps : \A g \in first_steps : f[1] <= g[1]}

\* the step that follows step k of subprocedure s in document order, as a
\* set: empty when (s, k) is the last step of the procedure
Following(sections, s, k) ==
    IF k + 1 < sections[s + 1] THEN {<<s, k + 1>>}
    ELSE LET later == {t \in (s + 1)..(Len(sections) - 1) : sections[t + 1] > 0}
         IN  IF later = {} THEN {}
             ELSE {<<CHOOSE t \in later : \A u \in later : t <= u, 0>>}

\* the current run resumes a run that was interrupted after it had accepted
\* the confirmation of a step, which is the last confirmation it accepted
ResumesAfterStep ==
    /\ pc # "idle"
    /\ start.resumed
    /\ interrupted # None
    /\ interrupted[1].last # None
    /\ interrupted[1].last[1][1] = "step"

\* C1 as stated: after an interruption that follows the accepted confirmation
\* of step k of subprocedure s (k = 0 included), the run resumed from the
\* persisted checkpoint renders as its first step the step that follows
\* (s, k), and does not ask again for the confirmation of (s, k). (Of the
\* steps confirmed before the interruption the formula names only (s, k): the
\* claim implies it.)
C1_ResumeAtNextStep ==
    ResumesAfterStep =>
        LET c == interrupted[1].last[1]
        IN  /\ FirstRendered \subseteq
                   Following(procedures[procedure_id].sections, c[2], c[3])
            /\ ~(pc = "step" /\ current_subprocedure_idx = c[2]
                             /\ current_step_idx = c[3])

\* C2 as stated: a run resumed from the checkpoint of a run that had accepted
\* the prerequisite confirmation does not request that confirmation again.
C2_PrerequisiteNotAskedAgain ==
    (pc # "idle" /\ start.resumed /\ interrupted # None /\ interrupted[1].prereq) =>
        (pc # "prereq" /\ \A i \in DOMAIN accepted : accepted[i] # <<"prereq">>)

\* C2 amended: a run resumed from a persisted checkpoint of a procedure with
\* at least one prerequisite requests the prerequisite confirmation again,
\* before it renders any step, also when that confirmation was accepted in
\* the interrupted run: the prerequisite confirmation is the first
\* confirmation of every resumed run.
C2_PrerequisiteAskedOnResume ==
    (pc # "idle" /\ start.resumed /\ procedures[procedure_id].prerequisites > 0) =>
        \/ pc = "prereq" /\ accepted = <<>> /\ first_steps = {}
        \/ accepted # <<>> /\ accepted[1] = <<"prereq">>

C2_Witness ==
    /\ pc = "prereq"
    /\ start.resumed
    /\ interrupted # None
    /\ interrupted[1].prereq
    /\ start.step > 0

\* C3: in every reachable state, after any sequence of runs, confirmations,
\* interruptions and resumes, the store holds at most one record for each
\* procedure id, in at most one file.
C3_CheckpointSingularity ==
    \A id \in ProcedureIds :
        /\ Cardinality({f \in store : f.state.procedure_id = id}) <= 1
        /\ Cardinality({f \in store : f.path = save_path(id)}) <= 1

\* both procedures have a record, and that of p1 has been overwritten
C3_Witness ==
    /\ Cardinality(store) = 2
    /\ \E f \in store : f.state.procedure_id = "p1" /\ f.state.step_idx = 2
    /\ Len(accepted) >= 3

\* C4: an executor constructed with resume position (s, k) enters
\* subprocedure s first; the first step it runs in s has index k+1 when
\* k > 0 and index 0 when k = 0; the first step it runs in a later
\* subprocedure has index 0.
C4_ResumeOffsetLaw ==
    pc # "idle" =>
        /\ entered # <<>> => entered[1] = start.sub
        /\ \A f \in first_steps :
              /\ f[1] >= start.sub
              /\ f[1] = start.sub =>
                    f[2] = IF start.step > 0 THEN start.step + 1 ELSE 0
              /\ f[1] > start.sub => f[2] = 0

C4_Witness ==
    /\ start.resumed
    /\ start.step > 0
    /\ \E f \in first_steps : f[1] = start.sub
    /\ \E f \in first_steps : f[1] > start.sub

\* C5: when run() has reached Complete, fresh or resumed, the store holds no
\* record for the procedure, and the deletion has raised nothing, also when
\* there was no record to delete.
C5_CompletionClearsState ==
    pc = "complete" =>
        /\ ~exists(store, save_path(procedure_id))
        /\ \A f \in store : f.state.procedure_id # procedure_id
        /\ error = "none"

\* a resumed run has completed after accepting confirmations; the record of
\* the other procedure is still there
C5_Witness ==
    /\ pc = "complete"
    /\ start.resumed
    /\ accepted # <<>>
    /\ store # {}

(***************************************************************************)
(* Claim about the confirmation gate (checked under SpecConfirm)           *)
(***************************************************************************)
\* the answer, lower-cased, equals "y" or contains "yes"
SaysYes(answer) ==
    LET a == lower(answer)
    IN  \/ a = <<"y">>
        \/ \E i \in 1..(Len(a) - 2) : a[i] = "y" /\ a[i + 1] = "e" /\ a[i + 2] = "s"

\* C6: _require_yes returns only on an answer that, lower-cased, equals "y"
\* or contains "yes"; on any other answer ("no", "yep", the empty string) it
\* does not return and asks the same confirmation again; it accepts
\* "Yes please" and "Y".
C6_ConfirmationGate ==
    /\ [](/\ verdict = "accepted" => SaysYes(result[1])
          /\ verdict = "rejected" => (~SaysYes(result[1]) /\ pc \in Confirming)
          /\ (verdict # "none" /\ result[1] \in {<<"n", "o">>, <<"y", "e", "p">>, <<>>})
                => verdict = "rejected"
          /\ (verdict # "none"
              /\ result[1] \in {<<"Y">>,
                                <<"Y", "e", "s", " ", "p", "l", "e", "a", "s", "e">>})
                => verdict = "accepted")
    /\ [][verdict' = "rejected" =>
             /\ pc' = pc
             /\ request' = request
             /\ accepted' = accepted
             /\ store' = store]_vars

\* "yep" has just been rejected at a step, after the prerequisite
\* confirmation was accepted
C6_Witness ==
    /\ verdict = "rejected"
    /\ result = Some(<<"y", "e", "p">>)
    /\ pc = "step"
    /\ accepted = <<<<"prereq">>>>

(***************************************************************************)
(* Claims about parse_choice (checked under SpecParse)                     *)
(***************************************************************************)
\* the runs of digits of s that have no word character on either side
DelimitedDigitRuns(s) ==
    {r \in (DOMAIN s) \X (DOMAIN s) :
        /\ r[1] <= r[2]
        /\ \A k \in r[1]..r[2] : IsDigit(s[k])
        /\ (r[1] = 1 \/ ~IsWordChar(s[r[1] - 1]))
        /\ (r[2] = Len(s) \/ ~IsWordChar(s[r[2] + 1]))}

\* the values 0..20 whose English word occurs in the lower-cased text
SpelledValues(s) ==
    {get_number_words[k].value : k \in
        {j \in DOMAIN get_number_words : Contains(lower(s), get_number_words[j].word)}}

WordFallback(s) ==
    IF SpelledValues(s) = {} THEN None
    ELSE Some(CHOOSE n \in SpelledValues(s) : \A m \in SpelledValues(s) : n <= m)

ParseExamples ==
    /\ text = <<"p", "l", "e", "a", "s", "e", " ", "p", "i", "c", "k", " ",
                "t", "h", "r", "e", "e">> => choice = Some(3)
    /\ text = <<"o", "p", "t", "i", "o", "n", " ", "7", " ",
                "p", "l", "e", "a", "s", "e">> => choice = Some(7)
    /\ text = <<"t", "w", "e", "n", "t", "y">> => choice = Some(20)
    /\ text = <<"b", "l", "a", "h">> => choice = None

\* C7 as stated: parse_choice returns the value of a sequence of digits that
\* occurs anywhere in the text whenever the text holds a digit, also when the
\* digits touch letters; otherwise the first vocabulary word in ascending
\* order that occurs in the lower-cased text; otherwise no selection.
C7_DigitsAnywhere ==
    parsed =>
        /\ (\E i \in DOMAIN text : IsDigit(text[i])) =>
               /\ choice # None
               /\ \E i \in DOMAIN text : \E j \in i..Len(text) :
                      /\ \A k \in i..j : IsDigit(text[k])
                      /\ choice = Some(DigitsValue(SubSeq(text, i, j)))
        /\ (\A i \in DOMAIN text : ~IsDigit(text[i])) => choice = WordFallback(text)
        /\ ParseExamples

\* C7 amended: parse_choice returns the value of the leftmost run of digits
\* that has no letter, digit or underscore directly before or after it; when
\* the text has no such run (digits that touch a letter do not count) it
\* returns the value of the first vocabulary word zero..twenty, in ascending
\* order, that occurs in the lower-cased text; otherwise no selection.
C7_DelimitedDigits ==
    parsed =>
        /\ DelimitedDigitRuns(text) # {} =>
               \E r \in DelimitedDigitRuns(text) :
                  /\ \A q \in DelimitedDigitRuns(text) : r[1] <= q[1]
                  /\ choice = Some(DigitsValue(SubSeq(text, r[1], r[2])))
        /\ DelimitedDigitRuns(text) = {} => choice = WordFallback(text)
        /\ ParseExamples

\* "2nd one": the digit touches a letter, so the word scan decides
C7_Witness ==
    /\ parsed
    /\ text = <<"2", "n", "d", " ", "o", "n", "e">>
    /\ choice = Some(1)

\* C8 as stated: for every n in 0..20 the spelled-out word for n, in any
\* letter case, parses to n, the value the digit form of n parses to.
C8_WordEqualsDigitForm ==
    parsed =>
        \A k \in DOMAIN get_number_words :
            lower(text) = get_number_words[k].word =>
                /\ choice = Some(get_number_words[k].value)
                /\ choice = parse_choice(NatToStr(get_number_words[k].value))

(***************************************************************************)
(* Claims about get_input (checked under SpecInput)                        *)
(***************************************************************************)
\* C9 as stated: with expect_choice set and max_choice = m, in text mode as
\* in voice mode, every value get_input returns is the decimal rendering of
\* an integer n with 1 <= n <= m.
C9_ChoiceInRange ==
    (pc = "returned" /\ request.expect_choice /\ request.max_choice # None) =>
        \E n \in 1..request.max_choice[1] : result = Some(NatToStr(n))

\* C10: a voice capture whose transcription is empty (no frame captured, or no
\* speech recognised) sets the mode to text and issues the same request again
\* (same prompt, expect_choice and max_choice, the prompt displayed once
\* more) without returning; a value returned from a voice capture is never
\* the empty transcription.
C10_VoiceFallback ==
    /\ [][(pc = "get_input" /\ mode = "voice" /\ transcript' = Some(<<>>)) =>
             /\ mode' = "text"
             /\ request' = request
             /\ shown' = shown + 1
             /\ pc' = "get_input"
             /\ result' = None]_vars
    /\ []((pc = "returned" /\ transcript # None) =>
             (transcript # Some(<<>>) /\ result # Some(<<>>)))

C10_Witness ==
    /\ pc = "get_input"
    /\ mode = "text"
    /\ transcript = Some(<<>>)
    /\ shown = 2
    /\ request = OperationRequest(2)

\* C11: in text mode, when the line the user types is the sentinel "404",
\* get_input sets the mode to voice and issues the same request again (same
\* prompt, expect_choice and max_choice, the prompt displayed once more)
\* without returning; a value returned for a typed line is never the sentinel.
C11_SentinelSwitchesToVoice ==
    /\ [][(pc = "get_input" /\ mode = "text" /\ typed' # None
           /\ strip(typed'[1]) = Sentinel) =>
             /\ mode' = "voice"
             /\ request' = request
             /\ shown' = shown + 1
             /\ pc' = "get_input"
             /\ result' = None]_vars
    /\ []((pc = "returned" /\ typed # None) =>
             (strip(typed[1]) # Sentinel /\ result # Some(Sentinel)))

\* the sentinel was typed, with a blank after it, at a numbered choice
C11_Witness ==
    /\ pc = "get_input"
    /\ mode = "voice"
    /\ typed = Some(<<"4", "0", "4", " ">>)
    /\ shown = 2
    /\ request = OperationRequest(2)

(***************************************************************************)
(* Claim about the recorder (checked under SpecRecord)                     *)
(***************************************************************************)
\* C12 as stated: on every exit path of a voice capture started by get_input
\* (normal stop, no audio captured, an exception of the transcription, an
\* early termination while it waits for the stop signal) the stream that was
\* opened is stopped and closed: whenever get_input has returned or has
\* unwound, and between its invocations, no microphone stream is open.
C12_StreamReleased ==
    pc \in {"get_input", "returned", "unwound"} => stream = "none"

(***************************************************************************)
(* Claims about the checkpoint's content and lifetime (checked under Spec) *)
(***************************************************************************)
Last(seq) == seq[Len(seq)]

\* C13: once the confirmation of step k of subprocedure s has been accepted,
\* and until the next confirmation is accepted (so before and while the next
\* step or the subprocedure-completion prompt is rendered), the record of the
\* procedure holds subprocedure index s and step index k: the step confirmed
\* last, not the step to run next.
C13_CheckpointHoldsConfirmedStep ==
    (pc \in Confirming /\ accepted # <<>> /\ Last(accepted)[1] = "step") =>
        \E f \in store :
            /\ f.path = save_path(procedure_id)
            /\ f.state.procedure_id = procedure_id
            /\ f.state.subprocedure_idx = Last(accepted)[2]
            /\ f.state.step_idx = Last(accepted)[3]

\* the last step of the second subprocedure has been confirmed; the executor
\* has reset its own step index and waits at the completion prompt
C13_Witness ==
    /\ pc = "subdone"
    /\ accepted # <<>>
    /\ Last(accepted) = <<"step", 1, 2>>
    /\ current_step_idx = 0
    /\ \E f \in store : f.path = save_path(procedure_id) /\ f.state.step_idx = 2

\* C14: in a run that started while the store held no record of its
\* procedure, a record of the procedure exists exactly when a confirmation
\* has been accepted and the run has not reached Complete; the store changes
\* only when a confirmation is accepted or Complete is reached, and a record
\* disappears only when Complete is reached.
C14_RecordLifetime ==
    /\ []((pc \in Confirming \cup {"complete"} /\ ~start.saved) =>
             (exists(store, save_path(procedure_id))
                 <=> (accepted # <<>> /\ pc # "complete")))
    /\ [][/\ store' # store =>
                (Len(accepted') = Len(accepted) + 1 \/ pc' = "complete")
          /\ \A id \in ProcedureIds :
                (exists(store, save_path(id)) /\ ~exists(store', save_path(id)))
                    => (pc' = "complete" /\ procedure_id' = id)]_vars

\* a fresh run that found no record has written one at its first confirmation
C14_Witness ==
    /\ pc \in Confirming
    /\ ~start.saved
    /\ ~start.resumed
    /\ Len(accepted) = 1
    /\ exists(store, save_path(procedure_id))

\* C15: the prerequisites phase requests a confirmation exactly when the
\* procedure has a prerequisite. With none, the run never waits at the
\* prerequisite confirmation and accepts none; with one or more, the run,
\* fresh or resumed, waits there before it has entered a subprocedure or
\* rendered a step, and accepts that confirmation once, as its first. Going
\* from the start of the run to its first confirmation writes no checkpoint.
C15_PrerequisitesPhase ==
    /\ [](pc \in Confirming \cup {"complete"} =>
            LET n == procedures[procedure_id].prerequisites
                asked == {i \in DOMAIN accepted : accepted[i] = <<"prereq">>}
            IN  /\ n = 0 => (pc # "prereq" /\ asked = {})
                /\ n > 0 =>
                      \/ /\ pc = "prereq"
                         /\ accepted = <<>>
                         /\ entered = <<>>
                         /\ first_steps = {}
                      \/ pc # "prereq" /\ asked = {1})
    /\ [][(pc = "idle" /\ pc' \in Confirming) => store' = store]_vars

\* a resumed run of a procedure with a prerequisite has accepted the
\* prerequisite confirmation and then that of a step
C15_Witness ==
    /\ start.resumed
    /\ procedures[procedure_id].prerequisites > 0
    /\ Len(accepted) = 2
    /\ accepted[1] = <<"prereq">>
    /\ accepted[2][1] = "step"

(***************************************************************************)
(* Claim about a failing checkpoint write (checked under SpecFault)        *)
(***************************************************************************)
\* C19: when the write of the checkpoint fails after an answer was accepted,
\* the error leaves _require_yes and run(): the executor is at no
\* confirmation any more, it has not advanced, it renders no further step
\* and requests no further confirmation, the write is not tried again, and
\* the error stays with the caller.
C19_WriteErrorPropagates ==
    /\ [](error = "OSError" => pc = "failed")
    /\ [][(pc \in Confirming /\ error' = "OSError") =>
             /\ pc' = "failed"
             /\ current_subprocedure_idx' = current_subprocedure_idx
             /\ current_step_idx' = current_step_idx
             /\ accepted' = accepted
             /\ entered' = entered
             /\ first_steps' = first_steps
             /\ request' = request
             /\ shown' = shown]_vars
    /\ [][pc = "failed" =>
             /\ pc' = "failed"
             /\ error' = error
             /\ store' = store
             /\ request' = request
             /\ shown' = shown
             /\ first_steps' = first_steps]_vars

\* the write failed at the confirmation of the second step, after two
\* confirmations had been written; the record of the first step is still
\* the one in the store
C19_Witness ==
    /\ pc = "failed"
    /\ error = "OSError"
    /\ current_step_idx = 1
    /\ Len(accepted) = 2
    /\ \E f \in store : f.state # Garbage /\ f.state.step_idx = 0

(***************************************************************************)
(* Claims about the startup selection (checked under SpecStartup)          *)
(***************************************************************************)
\* the save the selection that get_input returned picks, as a set: empty
\* when the selection is no integer from 1 to the number of saves
Picked ==
    LET v == py_int(strip(result[1]))
    IN  IF v # None /\ 1 <= v[1] /\ v[1] <= Len(saves) THEN {saves[v[1]]} ELSE {}

Running == Confirming \cup {"complete"}

\* C16 as stated: with n saves listed, a selection that is the integer i,
\* 1 <= i <= n, resumes the i-th listed save; every other selection starts
\* fresh and resumes none.
C16_ResumesListedRecord ==
    [][pc = "selected" =>
          IF Picked # {}
          THEN \A f \in Picked :
                  /\ pc' \in Running
                  /\ start'.resumed
                  /\ save_path(procedure_id') = f.path
          ELSE pc' = "retrieve" /\ procedure_id' = ""]_vars

\* C16 amended: a selection that is the integer i, 1 <= i <= n, picks the
\* i-th listed save: an executor is made for it, at its stored indices, when
\* the save is readable and names an available procedure; when it names a
\* procedure that is not available the outcome is start fresh, and when it is
\* unreadable select_startup_option raises. Every other selection (no
\* integer, 0, a negative number, n+1 or more) starts fresh. No save other
\* than the i-th is ever resumed.
C16_ResumesResumableRecord ==
    [][pc = "selected" =>
          IF Picked # {}
          THEN \A f \in Picked :
                  IF f.state = Garbage
                  THEN pc' = "failed" /\ error' = "JSONDecodeError"
                                      /\ procedure_id' = ""
                  ELSE IF f.state.procedure_id \notin DOMAIN procedures
                  THEN pc' = "retrieve" /\ procedure_id' = ""
                  ELSE /\ pc' \in Running
                       /\ procedure_id' = f.state.procedure_id
                       /\ start' = [resumed |-> TRUE, saved |-> TRUE,
                                    sub |-> f.state.subprocedure_idx,
                                    step |-> f.state.step_idx]
          ELSE /\ pc' = "retrieve"
               /\ procedure_id' = ""
               /\ error' = "none"]_vars

\* the second of three listed saves has been resumed
C16_Witness ==
    /\ pc \in Confirming
    /\ start.resumed
    /\ Len(saves) = 3
    /\ saves[2].path = save_path(procedure_id)
    /\ accepted = <<>>

\* C17: when the save picked at startup is readable and names a procedure
\* that is not among the available ones, select_startup_option prints the
\* "not found" message and returns no executor, raising nothing and leaving
\* the store as it is, and main goes on to retrieve a new procedure.
C17_MissingProcedureStartsFresh ==
    [][pc = "selected" =>
          \A f \in Picked :
              (f.state # Garbage /\ f.state.procedure_id \notin DOMAIN procedures) =>
                  /\ pc' = "retrieve"
                  /\ error' = "none"
                  /\ procedure_id' = ""
                  /\ Last(output') = NotFound
                  /\ store' = store]_vars

\* after the "not found" message a newly retrieved procedure runs
C17_Witness ==
    /\ pc \in Confirming
    /\ ~start.resumed
    /\ output # <<>>
    /\ Last(output) = NotFound

\* what C18 says of the listing: one line per save, in order and numbered,
\* then the line of the new procedure; a readable save shows its title and
\* its step index + 1, an unreadable one the file stem and step 0
ListingShown ==
    /\ Len(output) = Len(saves) + 1
    /\ output[Len(output)] = NewProcedureLine(Len(saves) + 1)
    /\ \A i \in DOMAIN saves :
          /\ output[i].kind = "entry"
          /\ output[i].i = i
          /\ IF saves[i].state = Garbage
             THEN /\ output[i].title = [stem |-> saves[i].path.stem]
                  /\ output[i].step_num = 0
             ELSE /\ output[i].title = saves[i].state.procedure_title
                  /\ output[i].step_num = saves[i].state.step_idx + 1

\* C18 as stated: the listing never aborts on an unreadable save; every save
\* gets its line and the selection prompt is reached; an unreadable save is
\* shown as a generic entry, and the failure to read it is reported.
C18_ReadFailureReported ==
    pc = "select" =>
        /\ ListingShown
        /\ request = SelectRequest
        /\ error = "none"
        /\ \A i \in DOMAIN saves :
              saves[i].state = Garbage =>
                  \E j \in DOMAIN output : output[j].kind = "message"

\* C18 amended: the listing never aborts on an unreadable save: whenever the
\* store holds a file, readable or not, the selection prompt is reached with
\* one line per save; an unreadable save is shown as a generic entry (file
\* stem, step 0) and nothing else is printed about it: no message reports
\* the failure to read it.
C18_ListingSurvivesUnreadable ==
    /\ [](pc = "select" =>
            /\ ListingShown
            /\ request = SelectRequest
            /\ error = "none"
            /\ \A j \in DOMAIN output : output[j].kind # "message")
    /\ [][(pc = "idle" /\ store # {} /\ pc' # "idle") =>
             (pc' = "select" /\ Len(saves') = Cardinality(store))]_vars

\* three saves are listed, the unreadable one as the second
C18_Witness ==
    /\ pc = "select"
    /\ Len(saves) = 3
    /\ saves[2].state = Garbage
    /\ output[2] = EntryLine(2, [stem |-> "p2"], 0)

\* C20 as stated: the step number the listing shows for a readable save
\* (stored step index + 1) is the number of the next step: when that save is
\* resumed, the first step rendered, and so the first step confirmation
\* requested ("Finished step N"), carries that number.
C20_DisplayedStepIsNextStep ==
    (pc \in Running /\ start.resumed) =>
        \A i \in DOMAIN saves :
            saves[i].path = save_path(procedure_id) =>
                \A f \in FirstRendered : output[i].step_num = f[2] + 1

\* the current run resumes a run that was interrupted after it had accepted
\* the completion confirmation of a subprocedure, which is the last
\* confirmation it accepted
ResumesAfterSubprocedure ==
    /\ pc # "idle"
    /\ start.resumed
    /\ interrupted # None
    /\ interrupted[1].last # None
    /\ interrupted[1].last[1][1] = "sub"

\* C21 as stated: after an interruption that follows the accepted completion
\* confirmation of subprocedure s, and precedes the next accepted
\* confirmation, the run resumed from the persisted checkpoint renders no
\* step of subprocedure s and asks for the confirmation of none: it never
\* enters subprocedure s as one whose steps run.
C21_CompletedSubprocedureNotRerun ==
    ResumesAfterSubprocedure =>
        LET s == interrupted[1].last[1][2]
        IN  /\ \A f \in first_steps : f[1] # s
            /\ ~(pc = "step" /\ current_subprocedure_idx = s)
            /\ \A i \in DOMAIN accepted :
                  ~(accepted[i][1] = "step" /\ accepted[i][2] = s)

RECURSIVE StepsFrom(_, _, _)
\* the steps of a procedure in document order, from step `from` of
\* subprocedure s on, as pairs <<subprocedure index, step index>>
StepsFrom(sections, s, from) ==
    IF s >= Len(sections) THEN <<>>
    ELSE IF from < sections[s + 1]
         THEN <<<<s, from>>>> \o StepsFrom(sections, s, from + 1)
         ELSE StepsFrom(sections, s + 1, 0)

\* the steps the current run has to run: those from its start position on,
\* the start position being the starting step lines 146-149 compute from the
\* indices the executor was constructed with
StepsDue ==
    StepsFrom(procedures[procedure_id].sections, start.sub,
              IF start.step > 0 THEN start.step + 1 ELSE 0)

IsStep(c) == c[1] = "step"

\* the steps whose confirmation the current run has accepted, in the order
\* of acceptance
StepsDone ==
    LET steps == SelectSeq(accepted, IsStep)
    IN  [i \in DOMAIN steps |-> <<steps[i][2], steps[i][3]>>]

\* C22: within one run the accepted step confirmations are, in order, the
\* steps of the procedure in document order from the start position on, with
\* no step left out and none repeated; the step being rendered is the one
\* that follows the last accepted one, so that step j+1 is rendered only
\* once the confirmation of step j is accepted; a run that completes has
\* confirmed them all.
C22_StepsConfirmedInDocumentOrder ==
    pc \in Running =>
        /\ Len(StepsDone) <= Len(StepsDue)
        /\ StepsDone = SubSeq(StepsDue, 1, Len(StepsDone))
        /\ pc = "step" =>
              /\ Len(StepsDone) < Len(StepsDue)
              /\ StepsDue[Len(StepsDone) + 1]
                     = <<current_subprocedure_idx, current_step_idx>>
        /\ pc = "complete" => StepsDone = StepsDue

\* a resumed run that starts inside a subprocedure has confirmed its steps
\* and the first step of the next subprocedure, and renders the second
C22_Witness ==
    /\ pc = "step"
    /\ start.resumed
    /\ start.step > 0
    /\ Len(StepsDone) >= 2
    /\ StepsDone[1][1] = start.sub
    /\ current_subprocedure_idx = start.sub + 1
    /\ current_step_idx = 1

\* the place of confirmation c in the accepted confirmations of the run, 0
\* when the run has not accepted it
PlaceOf(c) ==
    IF \E i \in DOMAIN accepted : accepted[i] = c
    THEN CHOOSE i \in DOMAIN accepted : accepted[i] = c
    ELSE 0

\* the subprocedures the current run has left behind: all those it entered
\* but, unless it is complete, the one it is in
SubproceduresLeft ==
    {entered[i] : i \in {j \in DOMAIN entered : j < Len(entered) \/ pc = "complete"}}

\* C23: every subprocedure a run visits, the last one and one that has no
\* step left to run included, ends in a completion confirmation of its own:
\* the run leaves it (for the next subprocedure or for the footer) only once
\* that confirmation is accepted, which happens once, after the confirmations
\* of its steps and before any confirmation of a later subprocedure; a
\* completed run has visited every subprocedure from its start on; and the
\* acceptance of the completion confirmation of subprocedure s writes the
\* checkpoint (s, 0).
C23_SubprocedureConfirmedBeforeLeaving ==
    pc \in Running =>
        /\ \A s \in SubproceduresLeft :
              /\ PlaceOf(<<"sub", s>>) > 0
              /\ \A i \in DOMAIN accepted :
                    /\ accepted[i] = <<"sub", s>> => i = PlaceOf(<<"sub", s>>)
                    /\ (accepted[i][1] = "step" /\ accepted[i][2] = s)
                          => i < PlaceOf(<<"sub", s>>)
                    /\ (accepted[i][1] # "prereq" /\ accepted[i][2] > s)
                          => i > PlaceOf(<<"sub", s>>)
        /\ pc \in {"step", "subdone"} =>
              /\ entered # <<>>
              /\ Last(entered) = current_subprocedure_idx
              /\ PlaceOf(<<"sub", current_subprocedure_idx>>) = 0
        /\ pc = "complete" =>
              LET n == Len(procedures[procedure_id].sections)
              IN  /\ Len(entered) = IF start.sub < n THEN n - start.sub ELSE 0
                  /\ \A i \in DOMAIN entered : entered[i] = start.sub + i - 1
        /\ (pc \in Confirming /\ accepted # <<>> /\ Last(accepted)[1] = "sub") =>
              \E f \in store :
                  /\ f.path = save_path(procedure_id)
                  /\ f.state.procedure_id = procedure_id
                  /\ f.state.subprocedure_idx = Last(accepted)[2]
                  /\ f.state.step_idx = 0

\* a resumed run found no step left in the subprocedure it resumed in, had
\* its completion confirmed, and is in the next subprocedure with the
\* checkpoint of the completed one
C23_Witness ==
    /\ pc = "step"
    /\ start.resumed
    /\ accepted # <<>>
    /\ Last(accepted) = <<"sub", start.sub>>
    /\ ~\E i \in DOMAIN accepted : accepted[i][1] = "step"
    /\ start.step > 0
    /\ \E f \in store : /\ f.path = save_path(procedure_id)
                        /\ f.state.subprocedure_idx = start.sub
                        /\ f.state.step_idx = 0

\* C24: a rejected answer leaves the executor where it was: the step that
\* rejects (it returns the answer, so the prompt is shown once again) changes
\* neither the store, nor the executor's indices and phase, nor the
\* confirmations accepted so far, nor the mode, raises nothing, and asks the
\* same confirmation again; as long as the last answer is a rejected one, the
\* executor is blocked in the confirmation of its position, so the same
\* holds for the next rejection, however many follow.
C24_RejectionChangesNothing ==
    /\ [](verdict = "rejected" =>
             /\ pc \in Confirming
             /\ error = "none"
             /\ shown >= 1
             /\ request = Request(PromptAt(Here), FALSE, None))
    /\ [][verdict' = "rejected" =>
             /\ store' = store
             /\ current_subprocedure_idx' = current_subprocedure_idx
             /\ current_step_idx' = current_step_idx
             /\ pc' = pc
             /\ error' = error
             /\ accepted' = accepted
             /\ entered' = entered
             /\ request' = request
             /\ shown' = 1 => (mode' = mode /\ ~require_yes_accepts(result'[1]))]_vars

\* the completion confirmation has been answered "no" in voice mode: the
\* checkpoint of the last step is still the stored one
C24_Witness ==
    /\ verdict = "rejected"
    /\ pc = "subdone"
    /\ mode = "voice"
    /\ shown = 1
    /\ result # None
    /\ ~require_yes_accepts(result[1])
    /\ accepted # <<>>
    /\ Last(accepted) = <<"step", 0, 1>>
    /\ \E f \in store : f.state.subprocedure_idx = 0 /\ f.state.step_idx = 1

\* the phase run() is in, as a number that grows along Header,
\* Prerequisites, the subprocedures in document order, Footer and Complete
\* (the header is printed before the first confirmation, the footer right
\* before Complete: the executor blocks in neither)
PhaseRank ==
    IF pc = "prereq" THEN 0
    ELSE IF pc \in {"step", "subdone"} THEN 1 + current_subprocedure_idx
    ELSE 1 + Len(procedures[procedure_id].sections) + start.sub

\* C25: when every confirmation request is, in the end, answered with an
\* accepted answer, a run that is blocked in a confirmation reaches Complete;
\* on the way the prerequisites phase comes first and once (it is there only
\* before any confirmation is accepted and any subprocedure entered), the
\* subprocedures entered are those from the start position on, each once and
\* in document order, and Complete comes only after the last of them; no
\* step of the run goes back to an earlier phase.
C25_RunReachesComplete ==
    /\ [](pc \in Running =>
             /\ pc = "prereq" => (accepted = <<>> /\ entered = <<>>)
             /\ \A i \in DOMAIN accepted : accepted[i] = <<"prereq">> => i = 1
             /\ (accepted # <<>> /\ accepted[1] = <<"prereq">>)
                    <=> (procedures[procedure_id].prerequisites > 0 /\ pc # "prereq")
             /\ \A i \in DOMAIN entered : entered[i] = start.sub + i - 1
             /\ pc \in {"step", "subdone"} =>
                    (entered # <<>> /\ Last(entered) = current_subprocedure_idx)
             /\ pc = "complete" =>
                    Len(entered) = Len(procedures[procedure_id].sections) - start.sub)
    /\ [][(pc \in Running /\ pc' \in Running) =>
             /\ PhaseRank' >= PhaseRank
             /\ PhaseRank' > PhaseRank =>
                    (accepted' # accepted /\ (pc' \in {"step", "subdone"} =>
                         current_subprocedure_idx' =
                             IF pc = "prereq" THEN start.sub
                             ELSE current_subprocedure_idx + 1))]_vars
    /\ (pc \in Confirming) ~> (pc = "complete")

\* a run of a procedure with a prerequisite and two subprocedures is
\* complete after an answer was rejected on the way
C25_Witness ==
    /\ pc = "complete"
    /\ ~start.resumed
    /\ entered = <<0, 1>>
    /\ accepted[1] = <<"prereq">>
    /\ Len(accepted) = 2 + 1 + MaxSteps + 1
    /\ store = {}

\* C26: the mode of a handler changes only inside get_input, and only in two
\* ways: from text to voice by a typed line that strips to the sentinel, from
\* voice to text by an empty transcription; a step that returns an answer
\* keeps the mode, a spoken choice that is heard but is no number or is out
\* of range keeps voice, and the next request on the handler starts in the
\* mode the last one ended in.
C26_ModeChangesOnTwoTriggers ==
    /\ [][mode' # mode =>
             /\ pc = "get_input"
             /\ pc' = "get_input"
             /\ result' = result
             /\ \/ /\ mode = "text"
                   /\ mode' = "voice"
                   /\ typed' # None
                   /\ strip(typed'[1]) = Sentinel
                \/ /\ mode = "voice"
                   /\ mode' = "text"
                   /\ transcript' = Some(<<>>)]_vars
    /\ [][(pc = "get_input" /\ mode = "voice" /\ transcript' # None
           /\ transcript'[1] # <<>>) => mode' = "voice"]_vars
    /\ [][(pc = "get_input" /\ mode = "text" /\ typed' # None
           /\ strip(typed'[1]) # Sentinel) => (mode' = "text" /\ pc' = "returned")]_vars
    /\ [][(pc = "returned" /\ pc' = "get_input") => mode' = mode]_vars

\* a choice was spoken and heard but not accepted: the prompt is shown again
\* and the handler still records
C26_Witness ==
    /\ pc = "get_input"
    /\ mode = "voice"
    /\ request.expect_choice
    /\ shown >= 2
    /\ transcript # None
    /\ transcript[1] # <<>>
    /\ result = None

\* the indices _save_state wrote when confirmation c of the current run was
\* accepted
SavedAt(c) ==
    IF c[1] = "step" THEN <<c[2], c[3]>>
    ELSE IF c[1] = "sub" THEN <<c[2], 0>>
    ELSE <<start.sub, start.step>>

\* C27 as stated: whenever a run that has accepted a confirmation is killed
\* before it completes, be it while it waits for an answer or while it writes
\* the checkpoint of a confirmation just accepted, the store is left with
\* exactly one record of the procedure, a readable one; it holds the indices
\* saved at the last accepted confirmation when the kill left the store
\* untouched, and those of the confirmation being saved otherwise.
C27_KillLeavesReadableCheckpoint ==
    [][(pc \in Confirming /\ pc' = "idle" /\ accepted # <<>>) =>
          LET mine == {f \in store' : f.path = save_path(procedure_id)}
          IN  /\ Cardinality(mine) = 1
              /\ \A f \in mine :
                    /\ f.state # Garbage
                    /\ f.state.procedure_id = procedure_id
                    /\ <<f.state.subprocedure_idx, f.state.step_idx>> =
                          IF store' = store THEN SavedAt(Last(accepted))
                          ELSE <<current_subprocedure_idx, current_step_idx>>]_vars

\* C28 as stated: whatever the saves hold and whatever is selected, the
\* startup selection raises nothing; when the save picked is one the listing
\* showed degraded because it cannot be read, the outcome is start fresh.
C28_SelectionNeverRaises ==
    [][pc = "selected" =>
          /\ pc' # "failed"
          /\ error' = "none"
          /\ \A f \in Picked : f.state = Garbage =>
                (pc' = "retrieve" /\ procedure_id' = "")]_vars

\* the current run was resumed at a subprocedure index the procedure does
\* not have
SubprocedureOutOfRange ==
    /\ pc \in Running
    /\ start.resumed
    /\ start.sub >= Len(procedures[procedure_id].sections)

\* the current run was resumed in a subprocedure of the procedure, at a step
\* index that subprocedure does not have
StepOutOfRange ==
    /\ pc \in Running
    /\ start.resumed
    /\ start.sub < Len(procedures[procedure_id].sections)
    /\ start.step >= procedures[procedure_id].sections[start.sub + 1]

\* C29: an executor made for indices outside the procedure raises nothing.
\* With the subprocedure index out of range it enters no subprocedure and
\* renders no step: apart from the prerequisites confirmation it is complete
\* at once, and the record is then gone. With only the step index out of
\* range it renders no step of that subprocedure: its first confirmation
\* after the prerequisites is the completion confirmation of that
\* subprocedure.
C29_OutOfRangeResumeIsHarmless ==
    /\ (pc \in Running /\ start.resumed) => error = "none"
    /\ SubprocedureOutOfRange =>
          /\ entered = <<>>
          /\ first_steps = {}
          /\ pc \in {"prereq", "complete"}
          /\ \A i \in DOMAIN accepted : accepted[i] = <<"prereq">>
          /\ pc = "complete" => ~exists(store, save_path(procedure_id))
    /\ StepOutOfRange =>
          /\ \A f \in first_steps : f[1] # start.sub
          /\ ~(pc = "step" /\ current_subprocedure_idx = start.sub)
          /\ \A i \in DOMAIN accepted :
                ~(accepted[i][1] = "step" /\ accepted[i][2] = start.sub)
          /\ (pc # "prereq" /\ \A i \in DOMAIN accepted : accepted[i] = <<"prereq">>)
                => (pc = "subdone" /\ current_subprocedure_idx = start.sub
                                   /\ current_step_idx = 0)

\* a run resumed from a save with a subprocedure index past the end had its
\* prerequisites confirmed and is complete; the save is deleted
C29_Witness ==
    /\ SubprocedureOutOfRange
    /\ pc = "complete"
    /\ accepted = <<<<"prereq">>>>
    /\ start.saved
    /\ ~exists(store, save_path(procedure_id))

====
